---- MODULE Spec2Model ----
(***************************************************************************)
(* Model of cs_scanimage.py: the scan pipeline of main() (tag, login,      *)
(* push, authenticate, poll, export, evaluate, decide) and the report      *)
(* evaluation functions of ScanReport.                                     *)
(*                                                                         *)
(* JSON documents are tagged values [t, v]:                                *)
(*   str  : v is the sequence of its characters                            *)
(*   int  : v is the number                                                *)
(*   null : Python None                                                    *)
(*   list : v is the sequence of its elements                              *)
(*   dict : v is the sequence of its <<key, value>> pairs, keys unique     *)
(* A Python call that may raise evaluates to [exc, val]: exc is the name   *)
(* of the exception raised ("" when none) and val the value returned.      *)
(***************************************************************************)
EXTENDS Integers, Sequences, FiniteSets, TLC

VARIABLES
    pc,           \* the statement of main() that runs next
    retry_count,  \* args.retry_count
    score,        \* args.score, a string (parse_args sets no type for it)
    json_report,  \* args.report: None or a file name
    image_push,   \* entries of the push stream not read yet
    stream_error, \* an entry with an 'error' field was read from the stream
    auth_status,  \* status code of the response to the token POST
    token,        \* the access token returned by get_api_token
    count,        \* number of iterations of the polling loop started
    resp,         \* the last response bound in get_scanreport
    statuses,     \* status codes of the report GETs, in order
    scan_report,  \* the ScanReport returned by get_scanreport
    f_vuln_score, \* main's f_vuln_score
    f_secrets,    \* main's f_secrets
    f_malware,    \* main's f_malware
    mcfg_code,    \* value returned by get_alerts_misconfig (main discards it)
    alerts,       \* alert lines logged by the detection scans
    calls,        \* external calls made so far, in order
    written,      \* the document written by export
    raised,       \* [step, exc]: the exception that ended the run
    exit_code     \* the argument of sys.exit

vars == <<pc, retry_count, score, json_report, image_push, stream_error,
          auth_status, token, count, resp,
          statuses, scan_report, f_vuln_score, f_secrets, f_malware, mcfg_code,
          alerts, calls, written, raised, exit_code>>

----------------------------------------------------------------------------
(* JSON values *)

Str(s) == [t |-> "str", v |-> s]
Num(n) == [t |-> "int", v |-> n]
None == [t |-> "null", v |-> 0]
List(xs) == [t |-> "list", v |-> xs]
Dict(pairs) == [t |-> "dict", v |-> pairs]

HasKey(d, k) == \E i \in 1..Len(d.v) : d.v[i][1] = k
Value(d, k) == d.v[CHOOSE i \in 1..Len(d.v) : d.v[i][1] = k][2]

IsNone(x) == x.t = "null"

(* Python results *)
Ok(x) == [exc |-> "", val |-> x]
Raise(e) == [exc |-> e, val |-> None]

(* An assignment name = x followed by the statements Rest(name): x is      *)
(* evaluated once.                                                         *)
With(x, Rest(_)) == CHOOSE result \in {Rest(name) : name \in {x}} : TRUE

SubscriptOrNone(obj, key) ==
    IF obj.t = "dict"
    THEN Ok(IF HasKey(obj, key) THEN Value(obj, key) ELSE None)
    ELSE Raise("TypeError")

(* obj[key] with a string key *)
Subscript(obj, key) ==
    IF obj.t = "dict"
    THEN IF HasKey(obj, key) THEN Ok(Value(obj, key)) ELSE Raise("KeyError")
    ELSE Raise("TypeError")

(* obj.get(key, default) *)
Get(obj, key, default) ==
    IF obj.t = "dict"
    THEN Ok(IF HasKey(obj, key) THEN Value(obj, key) ELSE default)
    ELSE Raise("AttributeError")

(* str.lower() *)
Upper == <<"A","B","C","D","E","F","G","H","I","J","K","L","M",
           "N","O","P","Q","R","S","T","U","V","W","X","Y","Z">>
Lowercase == <<"a","b","c","d","e","f","g","h","i","j","k","l","m",
               "n","o","p","q","r","s","t","u","v","w","x","y","z">>
LowerChar(c) ==
    IF \E i \in 1..Len(Upper) : Upper[i] = c
    THEN Lowercase[CHOOSE i \in 1..Len(Upper) : Upper[i] = c]
    ELSE c
lower(obj) ==
    IF obj.t = "str"
    THEN Ok(Str([i \in 1..Len(obj.v) |-> LowerChar(obj.v[i])]))
    ELSE Raise("AttributeError")

(* the elements a for loop visits; TypeError when the object is not        *)
(* iterable. Iterating a str yields its characters and iterating a dict    *)
(* its keys, all of them str.                                              *)
Iterate(obj) ==
    CASE obj.t = "list" -> Ok(obj.v)
      [] obj.t = "str" -> Ok([i \in 1..Len(obj.v) |-> Str(<<obj.v[i]>>)])
      [] obj.t = "dict" -> Ok([i \in 1..Len(obj.v) |-> Str(<<obj.v[i][1]>>)])
      [] OTHER -> Raise("TypeError")

(* int(s) for a string s: an optional sign and decimal digits *)
Digits == <<"0","1","2","3","4","5","6","7","8","9">>
IsDigit(c) == \E i \in 1..Len(Digits) : Digits[i] = c
DigitValue(c) == (CHOOSE i \in 1..Len(Digits) : Digits[i] = c) - 1
RECURSIVE DigitsValue(_)
DigitsValue(s) ==
    IF s = <<>> THEN 0
    ELSE 10 * DigitsValue(SubSeq(s, 1, Len(s) - 1)) + DigitValue(s[Len(s)])
int(s) ==
    With(s # <<>> /\ s[1] \in {"-", "+"}, LAMBDA signed :
    With(IF signed THEN Tail(s) ELSE s, LAMBDA digits :
        IF digits # <<>> /\ \A i \in 1..Len(digits) : IsDigit(digits[i])
        THEN Ok(IF signed /\ s[1] = "-" THEN 0 - DigitsValue(digits)
                ELSE DigitsValue(digits))
        ELSE Raise("ValueError")))

----------------------------------------------------------------------------
(* class ScanReport *)

vuln_str_key_1 == "Vulnerabilities"
details_str_key == "Details"
detect_str_key == "Detections"
type_malware == <<"m","a","l","w","a","r","e">>
type_secret == <<"s","e","c","r","e","t">>
type_misconfig == <<"m","i","s","c","o","n","f","i","g","u","r","a","t","i","o","n">>
type_cis == <<"c","i","s">>

(* class ScanStatusCode *)
Vulnerability == 1
Malware == 2
Secrets == 3
Success == 0
ScriptFailure == 10

critical_score == 2000
high_score == 500
medium_score == 100
low_score == 20
sev_low == <<"l","o","w">>
sev_medium == <<"m","e","d","i","u","m">>
sev_high == <<"h","i","g","h">>
sev_critical == <<"c","r","i","t","i","c","a","l">>

(* Lines 187-193: the severity read from a Details that is a dict *)
DetailsSeverity(details) ==
    With(Get(details, "cvss_v3_score", Dict(<<>>)), LAMBDA cvss_v3 :
    With(Get(cvss_v3.val, "severity", None), LAMBDA v3 :
        IF v3.exc # "" \/ ~IsNone(v3.val) THEN v3
        ELSE
    With(Get(details, "cvss_v2_score", Dict(<<>>)), LAMBDA cvss_v2 :
    With(Get(cvss_v2.val, "severity", None), LAMBDA v2 :
        IF v2.exc # "" \/ ~IsNone(v2.val) THEN v2
        ELSE Get(details, "severity", Str(<<>>))))))

(* Lines 181-198 for one record: its severity, once Product is read too;   *)
(* raises what the first failing statement raises.                         *)
Severity(vulnerability) ==
    With(Subscript(vulnerability, "Vulnerability"), LAMBDA vuln :
        IF vuln.exc # "" THEN vuln
        ELSE
    With(Get(vuln.val, "CVEID", Str(<<"C","V","E","-","u","n","k","n","o","w","n">>)), LAMBDA cve :
        IF cve.exc # "" THEN cve
        ELSE
    With(Get(vuln.val, details_str_key, Dict(<<>>)), LAMBDA details :
    With(IF details.val.t = "dict" THEN DetailsSeverity(details.val)
         ELSE Ok(Str(<<>>)), LAMBDA severity :
        IF severity.exc # "" THEN severity
        ELSE
    With(Get(vuln.val, "Product", Dict(<<>>)), LAMBDA product :
    With(Get(product.val, "PackageSource", product.val), LAMBDA affects :
        IF affects.exc # "" THEN affects
        ELSE severity))))))

(* The four if statements of lines 201-208 for one record *)
Weight(severity) ==
    With(lower(severity), LAMBDA low :
        IF low.exc # "" THEN low
        ELSE Ok((IF low.val.v = sev_low THEN low_score ELSE 0)
              + (IF low.val.v = sev_medium THEN medium_score ELSE 0)
              + (IF low.val.v = sev_high THEN high_score ELSE 0)
              + (IF low.val.v = sev_critical THEN critical_score ELSE 0)))

(* The loop of lines 180-208 from the i-th record on, vuln_score so far *)
RECURSIVE VulnLoop(_, _, _)
VulnLoop(vulnerabilities, i, vuln_score) ==
    IF i > Len(vulnerabilities) THEN Ok(vuln_score)
    ELSE
    With(Severity(vulnerabilities[i]), LAMBDA severity :
        IF severity.exc # "" THEN severity
        ELSE
    With(Weight(severity.val), LAMBDA weight :
        IF weight.exc # "" THEN weight
        ELSE VulnLoop(vulnerabilities, i + 1, vuln_score + weight.val)))

get_alerts_vuln_from_low(self) ==
    With(Subscript(self, vuln_str_key_1), LAMBDA vulnerabilities :
        IF vulnerabilities.exc # "" THEN vulnerabilities
        ELSE IF IsNone(vulnerabilities.val) THEN Ok(0)
        ELSE
    With(Iterate(vulnerabilities.val), LAMBDA records :
        IF records.exc # "" THEN records
        ELSE
    With(records.val, LAMBDA list : VulnLoop(list, 1, low_score))))

get_alerts_vuln(self) ==
    With(Subscript(self, vuln_str_key_1), LAMBDA vulnerabilities :
        IF vulnerabilities.exc # "" THEN vulnerabilities
        ELSE IF IsNone(vulnerabilities.val) THEN Ok(0)
        ELSE
    With(Iterate(vulnerabilities.val), LAMBDA records :
        IF records.exc # "" THEN records
        ELSE
    With(records.val, LAMBDA list : VulnLoop(list, 1, 0))))

(* detection['Detection']['Type'].lower() *)
DetectionType(detection) ==
    With(Subscript(detection, "Detection"), LAMBDA det :
        IF det.exc # "" THEN det
        ELSE
    With(Subscript(det.val, "Type"), LAMBDA type :
        IF type.exc # "" THEN type
        ELSE lower(type.val)))

(* The loop shared by the three detection scans, from the i-th record on:  *)
(* a KeyError skips the record, any other exception leaves the loop, and   *)
(* the first record whose type is in types ends it (val is TRUE).          *)
RECURSIVE DetectionLoop(_, _, _)
DetectionLoop(detections, i, types) ==
    IF i > Len(detections) THEN Ok(FALSE)
    ELSE
    With(DetectionType(detections[i]), LAMBDA type :
        IF type.exc = "KeyError" THEN DetectionLoop(detections, i + 1, types)
        ELSE IF type.exc # "" THEN [exc |-> type.exc, val |-> FALSE]
        ELSE IF type.val.v \in types THEN Ok(TRUE)
        ELSE DetectionLoop(detections, i + 1, types))

(* One detection scan: when a record matches, the alert is logged and      *)
(* det_code is returned.                                                   *)
DetectionScan(self, types, det_code) ==
    With(Subscript(self, detect_str_key), LAMBDA detections :
        IF detections.exc # "" THEN [exc |-> detections.exc, val |-> 0, alert |-> FALSE]
        ELSE IF IsNone(detections.val) THEN [exc |-> "", val |-> 0, alert |-> FALSE]
        ELSE
    With(Iterate(detections.val), LAMBDA records :
        IF records.exc # "" THEN [exc |-> records.exc, val |-> 0, alert |-> FALSE]
        ELSE
    With(records.val, LAMBDA list :
    With(DetectionLoop(list, 1, types), LAMBDA found :
        IF found.exc # "" THEN [exc |-> found.exc, val |-> 0, alert |-> FALSE]
        ELSE [exc |-> "", val |-> IF found.val THEN det_code ELSE 0,
              alert |-> found.val]))))

get_alerts_malware(self) == DetectionScan(self, {type_malware}, Malware)

get_alerts_secrets(self) == DetectionScan(self, {type_secret}, Secrets)

get_alerts_misconfig_flagged(self) ==
    DetectionScan(self, {type_misconfig, type_cis}, Vulnerability)

get_alerts_misconfig(self) == DetectionScan(self, {type_misconfig, type_cis}, Success)


----------------------------------------------------------------------------
(* Bounds of the model *)

MaxRetry == 2       \* retry_count ranges over 0..MaxRetry
MaxPushLines == 2   \* entries of a push stream
MaxBodyRecords == 1 \* records of a report polled in a whole run
MaxRecords == 3     \* records of a report handed to the evaluation alone

(* Inputs of the model *)

RECURSIVE SeqsOfLen(_, _)
SeqsOfLen(n, pool) ==
    IF n = 0 THEN {<<>>}
    ELSE {Append(s, pool[i]) : s \in SeqsOfLen(n - 1, pool), i \in 1..Len(pool)}

SeqsUpTo(n, pool) == UNION {SeqsOfLen(k, pool) : k \in 0..n}

Detection(type) == Dict(<< <<"Detection", Dict(<< <<"Type", type>> >>)>> >>)

DetectionPool == <<
    Detection(Str(<<"M","A","L","W","A","R","E">>)),
    Detection(Str(<<"S","e","c","r","e","t">>)),
    Detection(Str(<<"M","i","s","c","o","n","f","i","g","u","r","a","t","i","o","n">>)),
    Detection(Str(<<"C","I","S">>)),
    Detection(Str(<<"p","u","p">>)),
    Dict(<< <<"Detection", Dict(<<>>)>> >>),
    Detection(Num(5)),
    Str(<<"x">>) >>

Vuln(fields) == Dict(<< <<"Vulnerability", Dict(fields)>> >>)
Sev(s) == Dict(<< <<"severity", Str(s)>> >>)

VulnerabilityPool == <<
    Vuln(<< <<"CVEID", Str(<<"C","V","E","-","1">>)>>,
            <<"Details", Dict(<< <<"cvss_v3_score", Sev(<<"H","i","g","h">>)>> >>)>>,
            <<"Product", Dict(<< <<"PackageSource", Str(<<"l","i","b","\\","\"">>)>> >>)>> >>),
    Vuln(<< <<"Details", Sev(<<"l","o","w">>)>> >>),
    Vuln(<< <<"Details", Dict(<< <<"cvss_v3_score", Sev(<<"M","e","d","i","u","m">>)>>,
                                 <<"cvss_v2_score", Sev(<<"C","R","I","T","I","C","A","L">>)>> >>)>> >>),
    Vuln(<< <<"Details", Dict(<< <<"cvss_v3_score", Dict(<<>>)>>,
                                 <<"cvss_v2_score", Sev(<<"c","r","i","t","i","c","a","l">>)>>,
                                 <<"severity", Str(<<"l","o","w">>)>> >>)>> >>),
    Vuln(<<>>),
    Vuln(<< <<"Details", Str(<<"n","/","a">>)>> >>),
    Dict(<<>>),
    Vuln(<< <<"Details", Dict(<< <<"cvss_v3_score", None>> >>)>> >>),
    Vuln(<< <<"Details", Dict(<< <<"severity", Num(5)>> >>)>> >>),
    Vuln(<< <<"Product", Str(<<"l","i","b">>)>> >>) >>

(* A report with both sections lists *)
Report(vulnerabilities, detections) ==
    Dict(<< <<vuln_str_key_1, List(vulnerabilities)>>,
            <<detect_str_key, List(detections)>> >>)

(* The report whose sections hold the records of the pools at the given    *)
(* indices                                                                 *)
ListReport(vi, di) ==
    Report([i \in DOMAIN vi |-> VulnerabilityPool[vi[i]]],
           [i \in DOMAIN di |-> DetectionPool[di[i]]])

(* Reports with a section that is absent, null or not a list; the other    *)
(* section holds at most one record.                                       *)
Shapes == <<None, Num(5)>>
ShapeReports ==
    LET vlists == {List(s) : s \in SeqsUpTo(1, VulnerabilityPool)}
        dlists == {List(s) : s \in SeqsUpTo(1, DetectionPool)}
    IN  {Dict(<< <<detect_str_key, d>> >>) : d \in dlists}
        \cup {Dict(<< <<vuln_str_key_1, v>> >>) : v \in vlists}
        \cup {Dict(<< <<vuln_str_key_1, Shapes[i]>>, <<detect_str_key, d>> >>) :
                 i \in 1..Len(Shapes), d \in dlists}
        \cup {Dict(<< <<vuln_str_key_1, v>>, <<detect_str_key, Shapes[i]>> >>) :
                 i \in 1..Len(Shapes), v \in vlists}

(* Received(r) for some report r: one of ShapeReports, or one whose two    *)
(* sections are lists of at most n records together                        *)
SomeReport(n, Received(_)) ==
    \/ \E nv \in 0..n : \E nd \in 0..(n - nv) :
          \E vi \in [1..nv -> 1..Len(VulnerabilityPool)] :
             \E di \in [1..nd -> 1..Len(DetectionPool)] :
                Received(ListReport(vi, di))
    \/ \E r \in ShapeReports : Received(r)

PushLines == <<
    Dict(<< <<"status", Str(<<"P","u","s","h","i","n","g">>)>> >>),
    Dict(<< <<"status", Str(<<"P","u","s","h","e","d">>)>> >>),
    Dict(<< <<"aux", Dict(<<>>)>> >>),
    Dict(<< <<"error", Str(<<"d","e","n","i","e","d">>)>> >>) >>

(* The streams client.images.push returns *)
PushStreams == SeqsUpTo(MaxPushLines, PushLines)

(* json.dumps(obj, indent=4), as the sequence of the characters written *)
RECURSIVE Decimal(_)
Decimal(n) ==
    IF n < 0 THEN <<"-">> \o Decimal(0 - n)
    ELSE IF n < 10 THEN <<Digits[n + 1]>>
    ELSE Decimal(n \div 10) \o <<Digits[(n % 10) + 1]>>

EscapedNot(s) == s

RECURSIVE Escaped(_)
Escaped(s) ==
    IF s = <<>> THEN <<>>
    ELSE (IF Head(s) \in {"\"", "\\"} THEN <<"\\", Head(s)>> ELSE <<Head(s)>>)
         \o Escaped(Tail(s))

Quoted(s) == <<"\"">> \o Escaped(s) \o <<"\"">>

RECURSIVE Spaces(_)
Spaces(n) == IF n = 0 THEN <<>> ELSE <<" ">> \o Spaces(n - 1)

Newline(indent, level) == <<"\n">> \o Spaces(indent * level)

RECURSIVE dumps(_, _, _)
RECURSIVE DumpItems(_, _, _, _, _)
(* the items of a list or dict from the i-th on, at nesting depth level *)
DumpItems(items, i, isdict, indent, level) ==
    IF i > Len(items) THEN <<>>
    ELSE (IF i > 1 THEN <<",">> ELSE <<>>)
         \o Newline(indent, level)
         \o (IF isdict
             THEN Quoted(<<items[i][1]>>) \o <<":", " ">> \o dumps(items[i][2], indent, level)
             ELSE dumps(items[i], indent, level))
         \o DumpItems(items, i + 1, isdict, indent, level)
dumps(obj, indent, level) ==
    CASE obj.t = "null" -> <<"n","u","l","l">>
      [] obj.t = "int" -> Decimal(obj.v)
      [] obj.t = "str" -> Quoted(obj.v)
      [] obj.t = "list" ->
            IF obj.v = <<>> THEN <<"[", "]">>
            ELSE <<"[">> \o DumpItems(obj.v, 1, FALSE, indent, level + 1)
                 \o Newline(indent, level) \o <<"]">>
      [] obj.t = "dict" ->
            IF obj.v = <<>> THEN <<"{", "}">>
            ELSE <<"{">> \o DumpItems(obj.v, 1, TRUE, indent, level + 1)
                 \o Newline(indent, level) \o <<"}">>

----------------------------------------------------------------------------
(* json.loads(text), the parser behind resp.json(), for the texts of       *)
(* null, integers, strings, lists and dicts. text is a sequence of         *)
(* characters in which, as dumps writes it, the name of a key is one       *)
(* element. A parse gives the value read and the position after it.        *)

Parsed(val, pos) == [ok |-> TRUE, val |-> val, pos |-> pos]
NotParsed == [ok |-> FALSE, val |-> None, pos |-> 0]

RECURSIVE SkipSpace(_, _)
SkipSpace(text, i) ==
    IF i <= Len(text) /\ text[i] \in {" ", "\n"} THEN SkipSpace(text, i + 1)
    ELSE i

(* the characters of a string from position i, after the opening quote *)
RECURSIVE ScanString(_, _, _)
ScanString(text, i, chars) ==
    IF i > Len(text) THEN NotParsed
    ELSE IF text[i] = "\"" THEN Parsed(chars, i + 1)
    ELSE IF text[i] = "\\"
    THEN IF i + 1 <= Len(text) /\ text[i + 1] \in {"\"", "\\", "/"}
         THEN ScanString(text, i + 2, Append(chars, text[i + 1]))
         ELSE NotParsed
    ELSE ScanString(text, i + 1, Append(chars, text[i]))

(* the position after the digits that start at i *)
RECURSIVE ScanDigits(_, _)
ScanDigits(text, i) ==
    IF i <= Len(text) /\ IsDigit(text[i]) THEN ScanDigits(text, i + 1) ELSE i

ScanNumber(text, i) ==
    With(text[i] = "-", LAMBDA negative :
    With(IF negative THEN i + 1 ELSE i, LAMBDA first :
    With(ScanDigits(text, first), LAMBDA end :
        IF end = first THEN NotParsed
        ELSE
    With(DigitsValue(SubSeq(text, first, end - 1)), LAMBDA n :
        Parsed(Num(IF negative THEN 0 - n ELSE n), end)))))

RECURSIVE ParseValue(_, _)
RECURSIVE ParseItems(_, _, _)
RECURSIVE ParseMembers(_, _, _)

(* the items of a list from the item at position i on *)
ParseItems(text, i, items) ==
    With(ParseValue(text, i), LAMBDA item :
        IF ~item.ok THEN NotParsed
        ELSE
    With(SkipSpace(text, item.pos), LAMBDA j :
    With(Append(items, item.val), LAMBDA read :
        IF j > Len(text) THEN NotParsed
        ELSE IF text[j] = "]" THEN Parsed(List(read), j + 1)
        ELSE IF text[j] = ","
        THEN With(SkipSpace(text, j + 1), LAMBDA next :
                 ParseItems(text, next, read))
        ELSE NotParsed)))

(* the members of a dict from the key at position i on *)
ParseMembers(text, i, pairs) ==
    IF i > Len(text) \/ text[i] # "\"" THEN NotParsed
    ELSE
    With(ScanString(text, i + 1, <<>>), LAMBDA key :
        IF ~key.ok \/ Len(key.val) # 1 THEN NotParsed
        ELSE
    With(SkipSpace(text, key.pos), LAMBDA colon :
        IF colon > Len(text) \/ text[colon] # ":" THEN NotParsed
        ELSE
    With(SkipSpace(text, colon + 1), LAMBDA start :
    With(ParseValue(text, start), LAMBDA member :
        IF ~member.ok THEN NotParsed
        ELSE
    With(SkipSpace(text, member.pos), LAMBDA j :
    With(Append(pairs, <<key.val[1], member.val>>), LAMBDA read :
        IF j > Len(text) THEN NotParsed
        ELSE IF text[j] = "}" THEN Parsed(Dict(read), j + 1)
        ELSE IF text[j] = ","
        THEN With(SkipSpace(text, j + 1), LAMBDA next :
                 ParseMembers(text, next, read))
        ELSE NotParsed))))))

ParseValue(text, i) ==
    IF i > Len(text) THEN NotParsed
    ELSE
    With(text[i], LAMBDA c :
        CASE c = "n" ->
                IF i + 3 <= Len(text) /\ SubSeq(text, i, i + 3) = <<"n","u","l","l">>
                THEN Parsed(None, i + 4)
                ELSE NotParsed
          [] c = "\"" ->
                With(ScanString(text, i + 1, <<>>), LAMBDA s :
                    IF s.ok THEN Parsed(Str(s.val), s.pos) ELSE NotParsed)
          [] c = "[" ->
                With(SkipSpace(text, i + 1), LAMBDA j :
                    IF j <= Len(text) /\ text[j] = "]" THEN Parsed(List(<<>>), j + 1)
                    ELSE ParseItems(text, j, <<>>))
          [] c = "{" ->
                With(SkipSpace(text, i + 1), LAMBDA j :
                    IF j <= Len(text) /\ text[j] = "}" THEN Parsed(Dict(<<>>), j + 1)
                    ELSE ParseMembers(text, j, <<>>))
          [] c = "-" \/ IsDigit(c) -> ScanNumber(text, i)
          [] OTHER -> NotParsed)

loads(text) ==
    With(SkipSpace(text, 1), LAMBDA start :
    With(ParseValue(text, start), LAMBDA doc :
        IF ~doc.ok THEN Raise("JSONDecodeError")
        ELSE
    With(SkipSpace(text, doc.pos), LAMBDA end :
        IF end > Len(text) THEN Ok(doc.val) ELSE Raise("JSONDecodeError"))))

----------------------------------------------------------------------------
(* Inputs of a run *)

RetryCounts == 0..MaxRetry
ScoreArgs == {<<"0">>, <<"5","0","0">>, <<"x">>}
ReportArgs == {"None", "report.json"}
AuthStatuses == {200, 201, 401, 500}
ReportStatuses == {200, 202, 404}

NoReport == [t |-> "unset", v |-> 0]
NoResponse == [status_code |-> 0, body |-> NoReport]
NoFile == <<>>
NotRaised == [step |-> "", exc |-> "", status_code |-> 0]

(* The state main() starts in, for given arguments *)
Start(retries, threshold, report) ==
    /\ pc = "container_tag"
    /\ retry_count = retries
    /\ score = threshold
    /\ json_report = report
    /\ image_push = <<>>
    /\ stream_error = FALSE
    /\ auth_status = 0
    /\ token = ""
    /\ count = 0
    /\ resp = NoResponse
    /\ statuses = <<>>
    /\ scan_report = NoReport
    /\ f_vuln_score = -1
    /\ f_secrets = -1
    /\ f_malware = -1
    /\ mcfg_code = -1
    /\ alerts = {}
    /\ calls = <<>>
    /\ written = NoFile
    /\ raised = NotRaised
    /\ exit_code = -1

Init ==
    \E retries \in RetryCounts, threshold \in ScoreArgs, report \in ReportArgs :
        Start(retries, threshold, report)

FollowingExportLast(step) ==
    CASE step = "container_tag" -> "container_login"
      [] step = "container_login" -> "container_push"
      [] step = "container_push" -> "get_api_token"
      [] step = "get_api_token" -> "get_scanreport"
      [] step = "get_scanreport" -> "evaluate"
      [] step = "evaluate" ->
            IF json_report \notin {"None", ""} THEN "export" ELSE "decide"
      [] step = "export" -> "decide"
      [] step = "decide" -> "exit"

FollowingPushFirst(step) ==
    CASE step = "container_tag" -> "container_push"
      [] step = "container_push" -> "container_login"
      [] step = "container_login" -> "get_api_token"
      [] step = "get_api_token" -> "get_scanreport"
      [] step = "get_scanreport" ->
            IF json_report \notin {"None", ""} THEN "export" ELSE "evaluate"
      [] step = "export" -> "evaluate"
      [] step = "evaluate" -> "decide"
      [] step = "decide" -> "exit"

(* The statement of main() that follows a step, lines 368-394 *)
Following(step) ==
    CASE step = "container_tag" -> "container_login"
      [] step = "container_login" -> "container_push"
      [] step = "container_push" -> "get_api_token"
      [] step = "get_api_token" -> "get_scanreport"
      [] step = "get_scanreport" ->
            IF json_report \notin {"None", ""} THEN "export" ELSE "evaluate"
      [] step = "export" -> "evaluate"
      [] step = "evaluate" -> "decide"
      [] step = "decide" -> "exit"

(* An exception propagates to the handlers of main(), lines 396-401: both *)
(* exit with ScriptFailure. status_code is the HTTP status an APIError of  *)
(* a request carries.                                                      *)
Fail(step, exc, status_code) ==
    /\ pc' = "exit"
    /\ raised' = [step |-> step, exc |-> exc, status_code |-> status_code]
    /\ exit_code' = ScriptFailure

Continue(step) ==
    /\ pc' = Following(step)
    /\ UNCHANGED <<raised, exit_code>>

----------------------------------------------------------------------------
(* class ScanImage *)

(* Step 1, lines 50-62: images.list, images.pull when the image is not     *)
(* there, images.get and tag; each call of the client may raise.           *)
container_tag ==
    /\ pc = "container_tag"
    /\ calls' = Append(calls, "tag")
    /\ \E outcome \in {"tagged", "pulled and tagged", "list raises",
                       "pull raises", "get raises", "tag raises"} :
          IF outcome \in {"tagged", "pulled and tagged"}
          THEN Continue("container_tag")
          ELSE Fail("container_tag", "DockerException", 0)
    /\ UNCHANGED <<retry_count, score, json_report, image_push, stream_error,
                   auth_status, token, count, resp, statuses, scan_report,
                   f_vuln_score, f_secrets, f_malware, mcfg_code, alerts, written>>

(* Step 2, lines 65-81: client.login; when its result has no subscript     *)
(* (TypeError) podman login runs with check=True.                          *)
container_login ==
    /\ pc = "container_login"
    /\ calls' = Append(calls, "login")
    /\ \E outcome \in {"Status", "podman login", "login raises", "no Status",
                       "podman login fails"} :
          CASE outcome \in {"Status", "podman login"} -> Continue("container_login")
            [] outcome = "login raises" -> Fail("container_login", "DockerException", 0)
            [] outcome = "no Status" -> Fail("container_login", "KeyError", 0)
            [] outcome = "podman login fails" ->
                  Fail("container_login", "CalledProcessError", 0)
    /\ UNCHANGED <<retry_count, score, json_report, image_push, stream_error,
                   auth_status, token, count, resp, statuses, scan_report,
                   f_vuln_score, f_secrets, f_malware, mcfg_code, alerts, written>>

HasErrorDetail(line) == HasKey(line, "errorDetail")

(* 'error' in line, line 95 *)
HasError(line) == HasKey(line, "error")

(* The loop of lines 94-103: the number of entries read from the stream,   *)
(* which ends at the first entry that raises.                              *)
RECURSIVE EntriesRead(_, _)
EntriesRead(stream, i) ==
    IF i > Len(stream) THEN Len(stream)
    ELSE IF HasError(stream[i]) THEN i
    ELSE EntriesRead(stream, i + 1)

(* Step 3, lines 84-103. stream_error records whether the registry sent an *)
(* entry with an 'error' field among those read.                           *)
container_push ==
    /\ pc = "container_push"
    /\ calls' = Append(calls, "push")
    /\ \/ /\ Fail("container_push", "DockerException", 0)
          /\ UNCHANGED <<image_push, stream_error>>
       \/ \E stream \in PushStreams :
             \E n \in {EntriesRead(stream, 1)} :
                 /\ image_push' = SubSeq(stream, n + 1, Len(stream))
                 /\ stream_error' = \E i \in 1..n : HasKey(stream[i], "error")
                 /\ IF n > 0 /\ HasError(stream[n])
                    THEN Fail("container_push", "APIError", 0)
                    ELSE Continue("container_push")
    /\ UNCHANGED <<retry_count, score, json_report, auth_status, token, count,
                   resp, statuses, scan_report, f_vuln_score, f_secrets,
                   f_malware, mcfg_code, alerts, written>>

TokenGrantedBelow500(status_code) == status_code < 500

TokenGrantedOnly200(status_code) == status_code = 200

(* resp.status_code in (200, 201), line 117 *)
TokenGranted(status_code) == status_code \in {200, 201}

(* Step 4, lines 106-120: one POST; the body of a 200 or 201 response      *)
(* holds the access token.                                                 *)
get_api_token ==
    /\ pc = "get_api_token"
    /\ calls' = Append(calls, "POST")
    /\ \E status_code \in AuthStatuses :
          /\ auth_status' = status_code
          /\ IF TokenGranted(status_code)
             THEN token' = "access_token" /\ Continue("get_api_token")
             ELSE token' = token /\ Fail("get_api_token", "APIError", status_code)
    /\ UNCHANGED <<retry_count, score, json_report, image_push, stream_error,
                   count, resp, statuses, scan_report, f_vuln_score, f_secrets,
                   f_malware, mcfg_code, alerts, written>>

ReportReadyAccepted(status_code) == status_code \in {200, 202}

(* not (resp.status_code != 200), lines 136-139 *)
ReportReady(status_code) == ~(status_code # 200)

sleep_seconds == 10

InRangeInclusive(n, stop) == n <= stop

(* for count in range(retry_count), line 132: the loop has an iteration    *)
(* for the count n                                                         *)
InRange(n, stop) == n < stop

(* Step 5, lines 132-140: one iteration of the polling loop. The body of a *)
(* response that ends the loop is the report; ScanReport(resp.json()) is   *)
(* returned.                                                               *)
get_scanreport ==
    /\ pc = "get_scanreport"
    /\ InRange(count, retry_count)
    /\ count' = count + 1
    /\ calls' = calls \o <<"sleep", "GET">>
    /\ \E status_code \in ReportStatuses :
          /\ statuses' = Append(statuses, status_code)
          /\ IF ReportReady(status_code)
             THEN SomeReport(MaxBodyRecords, LAMBDA body :
                     /\ resp' = [status_code |-> status_code, body |-> body]
                     /\ scan_report' = body
                     /\ pc' = Following("get_scanreport"))
             ELSE /\ resp' = [status_code |-> status_code, body |-> None]
                  /\ UNCHANGED <<scan_report, pc>>
    /\ UNCHANGED <<retry_count, score, json_report, image_push, stream_error,
                   auth_status, token, f_vuln_score, f_secrets, f_malware,
                   mcfg_code, alerts, written, raised, exit_code>>

(* Lines 141-142: the loop ended without a return. resp is not bound when  *)
(* the loop had no iteration.                                              *)
retries_exhausted ==
    /\ pc = "get_scanreport"
    /\ ~InRange(count, retry_count)
    /\ IF resp = NoResponse
       THEN Fail("get_scanreport", "UnboundLocalError", 0)
       ELSE Fail("get_scanreport", "APIError", resp.status_code)
    /\ UNCHANGED <<retry_count, score, json_report, image_push, stream_error,
                   auth_status, token, count, resp, statuses, scan_report,
                   f_vuln_score, f_secrets, f_malware, mcfg_code, alerts, calls,
                   written>>

(* Lines 164-166 with lines 374-375; opening the file may raise *)
export ==
    /\ pc = "export"
    /\ calls' = Append(calls, "write")
    /\ \/ written' = dumps(scan_report, 4, 0) /\ Continue("export")
       \/ written' = written /\ Fail("export", "OSError", 0)
    /\ UNCHANGED <<retry_count, score, json_report, image_push, stream_error,
                   auth_status, token, count, resp, statuses, scan_report,
                   f_vuln_score, f_secrets, f_malware, mcfg_code, alerts>>

(* Lines 376-379: the four scans in the order of main(); the first that    *)
(* raises ends the evaluation, step names it and the later values are not  *)
(* assigned. The scans return integers, which int() returns unchanged.     *)
NotEvaluated ==
    [f_vuln_score |-> -1, f_secrets |-> -1, f_malware |-> -1, mcfg_code |-> -1,
     alerts |-> {}, step |-> "", exc |-> ""]

Evaluated(self) ==
    With(self, LAMBDA report :
    With(get_alerts_vuln(report), LAMBDA vuln :
        IF vuln.exc # ""
        THEN [NotEvaluated EXCEPT !.step = "get_alerts_vuln", !.exc = vuln.exc]
        ELSE
    With([NotEvaluated EXCEPT !.f_vuln_score = vuln.val], LAMBDA e1 :
    With(get_alerts_secrets(report), LAMBDA sec :
        IF sec.exc # ""
        THEN [e1 EXCEPT !.step = "get_alerts_secrets", !.exc = sec.exc]
        ELSE
    With([e1 EXCEPT !.f_secrets = sec.val,
                    !.alerts = IF sec.alert THEN {"Leaked secrets detected"} ELSE {}],
         LAMBDA e2 :
    With(get_alerts_malware(report), LAMBDA mal :
        IF mal.exc # ""
        THEN [e2 EXCEPT !.step = "get_alerts_malware", !.exc = mal.exc]
        ELSE
    With([e2 EXCEPT !.f_malware = mal.val,
                    !.alerts = IF mal.alert THEN @ \cup {"Malware found"} ELSE @],
         LAMBDA e3 :
    With(get_alerts_misconfig(report), LAMBDA mcfg :
        IF mcfg.exc # ""
        THEN [e3 EXCEPT !.step = "get_alerts_misconfig", !.exc = mcfg.exc]
        ELSE [e3 EXCEPT !.mcfg_code = mcfg.val,
                        !.alerts = IF mcfg.alert THEN @ \cup {"Misconfiguration found"}
                                   ELSE @]))))))))

evaluate ==
    /\ pc = "evaluate"
    /\ \E e \in {Evaluated(scan_report)} :
          /\ f_vuln_score' = e.f_vuln_score
          /\ f_secrets' = e.f_secrets
          /\ f_malware' = e.f_malware
          /\ mcfg_code' = e.mcfg_code
          /\ alerts' = alerts \cup e.alerts
          /\ IF e.exc # "" THEN Fail(e.step, e.exc, 0) ELSE Continue("evaluate")
    /\ UNCHANGED <<retry_count, score, json_report, image_push, stream_error,
                   auth_status, token, count, resp, statuses, scan_report, calls,
                   written>>

DecidedStrictly(secrets, malware, vuln_score, threshold) ==
    IF secrets = Secrets THEN Ok(Secrets)
    ELSE IF malware = Malware THEN Ok(Malware)
    ELSE
    With(int(threshold), LAMBDA limit :
        IF limit.exc # "" THEN [exc |-> limit.exc, val |-> ScriptFailure]
        ELSE IF vuln_score > limit.val THEN Ok(Vulnerability)
        ELSE Ok(Success))

(* Lines 381-394: the exit code; int(score) is evaluated only when line    *)
(* 387 is reached.                                                         *)
Decided(secrets, malware, vuln_score, threshold) ==
    IF secrets = Secrets THEN Ok(Secrets)
    ELSE IF malware = Malware THEN Ok(Malware)
    ELSE
    With(int(threshold), LAMBDA limit :
        IF limit.exc # "" THEN [exc |-> limit.exc, val |-> ScriptFailure]
        ELSE IF vuln_score >= limit.val THEN Ok(Vulnerability)
        ELSE Ok(Success))

decide ==
    /\ pc = "decide"
    /\ \E d \in {Decided(f_secrets, f_malware, f_vuln_score, score)} :
          IF d.exc # "" THEN Fail("decide", d.exc, 0)
          ELSE pc' = Following("decide") /\ exit_code' = d.val /\ raised' = raised
    /\ UNCHANGED <<retry_count, score, json_report, image_push, stream_error,
                   auth_status, token, count, resp, statuses, scan_report,
                   f_vuln_score, f_secrets, f_malware, mcfg_code, alerts, calls,
                   written>>

(* The exit code of main() once get_scanreport has returned self and no    *)
(* export is configured, lines 376-401                                     *)
ExitCode(self, threshold) ==
    With(Evaluated(self), LAMBDA e :
        IF e.exc # "" THEN ScriptFailure
        ELSE
    With(Decided(e.f_secrets, e.f_malware, e.f_vuln_score, threshold), LAMBDA d :
        IF d.exc # "" THEN ScriptFailure ELSE d.val))

(* main(), lines 358-401 *)
Next ==
    \/ container_tag
    \/ container_login
    \/ container_push
    \/ get_api_token
    \/ get_scanreport
    \/ retries_exhausted
    \/ export
    \/ evaluate
    \/ decide

Spec == Init /\ [][Next]_vars

(* main() when every call it makes returns: a step that can be taken is    *)
(* taken                                                                   *)
SpecReturning == Spec /\ WF_vars(Next)

(* The evaluation alone, lines 376-394: the state in which get_scanreport  *)
(* has just returned a report, drawn from the reports of at most           *)
(* MaxRecords records.                                                     *)
InitEvaluation ==
    /\ pc = "evaluate"
    /\ retry_count = 1
    /\ score \in ScoreArgs
    /\ json_report = "None"
    /\ image_push = <<>>
    /\ stream_error = FALSE
    /\ auth_status = 200
    /\ token = "access_token"
    /\ count = 1
    /\ SomeReport(MaxRecords, LAMBDA report :
          /\ resp = [status_code |-> 200, body |-> report]
          /\ scan_report = report)
    /\ statuses = <<200>>
    /\ f_vuln_score = -1
    /\ f_secrets = -1
    /\ f_malware = -1
    /\ mcfg_code = -1
    /\ alerts = {}
    /\ calls = <<"tag", "login", "push", "POST", "sleep", "GET">>
    /\ written = NoFile
    /\ raised = NotRaised
    /\ exit_code = -1

NextEvaluation == evaluate \/ decide

SpecEvaluation == InitEvaluation /\ [][NextEvaluation]_vars

----------------------------------------------------------------------------
(* What the claims speak of *)

(* the characters of s, case-folded *)
Folded(s) == [i \in 1..Len(s) |-> LowerChar(s[i])]

(* record is a detection whose Type is a string that case-folds to one of  *)
(* names                                                                   *)
IsDetectionOf(record, names) ==
    /\ record.t = "dict"
    /\ HasKey(record, "Detection")
    /\ \E det \in {Value(record, "Detection")} :
          /\ det.t = "dict"
          /\ HasKey(det, "Type")
          /\ \E type \in {Value(det, "Type")} :
                type.t = "str" /\ Folded(type.v) \in names

(* the section of the report under key is a list *)
IsListSection(report, key) ==
    /\ report.t = "dict"
    /\ HasKey(report, key)
    /\ Value(report, key).t = "list"

(* the report has a detection of one of the types names *)
Present(report, names) ==
    /\ IsListSection(report, detect_str_key)
    /\ \E list \in {Value(report, detect_str_key).v} :
          \E i \in 1..Len(list) : IsDetectionOf(list[i], names)

(* the report with one more detection, of type misconfiguration, in front  *)
WithMisconfig(report) ==
    Dict([i \in 1..Len(report.v) |->
            IF report.v[i][1] = detect_str_key
            THEN <<detect_str_key,
                   List(<<Detection(Str(type_misconfig))>> \o report.v[i][2].v)>>
            ELSE report.v[i]])

Occurrences(call) == Cardinality({i \in 1..Len(calls) : calls[i] = call})

(* The states of the orchestrator *)
State(step) ==
    CASE step = "container_tag" -> "Tagging"
      [] step = "container_login" -> "LoggingIn"
      [] step = "container_push" -> "Pushing"
      [] step = "get_api_token" -> "Authenticating"
      [] step \in {"get_scanreport", "export"} -> "Polling"
      [] step = "evaluate" -> "Evaluating"
      [] step = "decide" -> "Deciding"
      [] step = "exit" -> "Terminal"

StateOrder == <<"Tagging", "LoggingIn", "Pushing", "Authenticating", "Polling",
                "Evaluating", "Deciding", "Terminal">>
Rank(state) == CHOOSE i \in 1..Len(StateOrder) : StateOrder[i] = state

(* the step of the run a failure is raised in, 0 when none: the scans of   *)
(* the evaluation count from 7 on                                          *)
StepOrder == <<"container_tag", "container_login", "container_push",
               "get_api_token", "get_scanreport", "export", "get_alerts_vuln",
               "get_alerts_secrets", "get_alerts_malware", "get_alerts_misconfig",
               "decide">>
FailedAt ==
    IF raised.step = "" THEN 0
    ELSE CHOOSE i \in 1..Len(StepOrder) : StepOrder[i] = raised.step

----------------------------------------------------------------------------
(* C1: when the report evaluates without error and the threshold is an     *)
(* integer, main exits Secrets if a secret detection is present, otherwise *)
(* Malware if a malware detection is present, otherwise Vulnerability if   *)
(* the vulnerability score is at least the threshold, otherwise Success.   *)
C1_DecisionRule ==
    (pc = "exit" /\ raised = NotRaised) =>
        exit_code = IF Present(scan_report, {type_secret}) THEN Secrets
                    ELSE IF Present(scan_report, {type_malware}) THEN Malware
                    ELSE IF f_vuln_score >= int(score).val THEN Vulnerability
                    ELSE Success

(* a run exits Vulnerability with a score equal to the threshold *)
C1_Witness ==
    /\ pc = "exit"
    /\ raised = NotRaised
    /\ exit_code = Vulnerability
    /\ f_vuln_score = high_score
    /\ score = <<"5","0","0">>

(* C2: for two reports that differ only in a detection of type             *)
(* misconfiguration, main exits with the same code.                        *)
C2_MisconfigNeverAffects ==
    (pc = "exit" /\ IsListSection(scan_report, detect_str_key)) =>
        exit_code = ExitCode(WithMisconfig(scan_report), score)

(* C3: get_scanreport returns on the first 200 response: no GET follows a  *)
(* 200, every GET is one of at most retry_count, and the report returned   *)
(* is the body of that 200 response.                                       *)
C3_ReturnsOnFirst200 ==
    /\ \A i \in 1..(Len(statuses) - 1) : statuses[i] # 200
    /\ Occurrences("GET") = Len(statuses)
    /\ Len(statuses) <= retry_count
    /\ (statuses # <<>> /\ statuses[Len(statuses)] = 200) <=> scan_report.t # "unset"
    /\ scan_report.t # "unset" =>
          /\ pc # "get_scanreport"
          /\ resp.status_code = 200
          /\ resp.body.t = scan_report.t
          /\ resp.body = scan_report

(* the report is returned by the second GET, after a first non-200 *)
C3_Witness ==
    /\ scan_report.t # "unset"
    /\ Len(statuses) = 2
    /\ statuses[1] # 200

(* C4: when get_scanreport ends without a 200, it raises an APIError that  *)
(* carries the status code of the last response, for every retry_count,    *)
(* and the run exits ScriptFailure.                                        *)
C4_ExhaustedRaisesAPIError ==
    raised.step = "get_scanreport" =>
        /\ raised.exc = "APIError"
        /\ statuses # <<>>
        /\ raised.status_code = statuses[Len(statuses)]
        /\ exit_code = ScriptFailure

(* C5: at most one token POST is made in a run; a 200 or 201 response      *)
(* yields the token; any other status raises APIError and the run exits    *)
(* ScriptFailure without any report GET.                                   *)
C5_AuthenticatesOnce ==
    /\ Occurrences("POST") = (IF auth_status = 0 THEN 0 ELSE 1)
    /\ auth_status \in {200, 201} =>
          token = "access_token" /\ raised.step # "get_api_token"
    /\ auth_status \notin {0, 200, 201} =>
          /\ pc = "exit"
          /\ exit_code = ScriptFailure
          /\ raised = [step |-> "get_api_token", exc |-> "APIError",
                       status_code |-> auth_status]
          /\ token = ""
          /\ statuses = <<>>
          /\ Occurrences("GET") = 0

(* the token endpoint answered 401 and the run is over *)
C5_Witness == auth_status = 401 /\ pc = "exit"

(* C6: a run starts in Tagging and every step of it either stays in        *)
(* Polling, or moves to the next state of the order with no failure        *)
(* raised, or moves to Terminal; Terminal is never left.                   *)
C6_StrictOrder ==
    /\ State(pc) = "Tagging"
    /\ [][\E a \in {Rank(State(pc))}, b \in {Rank(State(pc'))} :
            /\ pc' = pc => pc = "get_scanreport"
            /\ b = a => State(pc) = "Polling"
            /\ b # a => (b = a + 1 \/ State(pc') = "Terminal")
            /\ pc' # "exit" => raised' = NotRaised]_vars

(* a run went through every state and exits Success after two GETs *)
C6_Witness == pc = "exit" /\ exit_code = Success /\ Len(statuses) = 2

(* C7: a failure in any step ends the run with ScriptFailure at once: an   *)
(* entry with an 'error' field read from the push stream is such a         *)
(* failure, nothing of a later step has happened when the run has failed,  *)
(* and a run that exits 0, 1, 2 or 3 has not failed.                       *)
C7_FailureIsFatal ==
    /\ raised # NotRaised => pc = "exit" /\ exit_code = ScriptFailure
    /\ exit_code \in {Success, Vulnerability, Malware, Secrets} =>
          raised = NotRaised /\ ~stream_error
    /\ stream_error => raised.step = "container_push" /\ raised.exc = "APIError"
    /\ \E k \in {FailedAt} :
          /\ k \in 1..1 => Occurrences("login") = 0
          /\ k \in 1..2 => Occurrences("push") = 0
          /\ k \in 1..3 => Occurrences("POST") = 0 /\ auth_status = 0
          /\ k \in 1..4 => Occurrences("GET") = 0 /\ statuses = <<>>
          /\ k \in 1..5 => Occurrences("write") = 0 /\ scan_report.t = "unset"
          /\ k \in 1..6 => written = NoFile
          /\ k \in 1..7 => f_vuln_score = -1
          /\ k \in 1..8 => f_secrets = -1
          /\ k \in 1..9 => f_malware = -1
          /\ k \in 1..10 => mcfg_code = -1
          /\ k \in 1..11 => exit_code = ScriptFailure

(* the push stream gave an entry with an 'error' field before its end *)
C7_Witness == stream_error /\ image_push # <<>> /\ pc = "exit"

C9_MalformedSkipped ==
    (pc # "evaluate" /\ f_vuln_score # -1
        /\ IsListSection(scan_report, detect_str_key)) =>
        /\ raised.step \notin {"get_alerts_secrets", "get_alerts_malware",
                               "get_alerts_misconfig"}
        /\ f_secrets = IF Present(scan_report, {type_secret}) THEN Secrets ELSE 0
        /\ f_malware = IF Present(scan_report, {type_malware}) THEN Malware ELSE 0

(* C10: when the report has both top-level keys and Vulnerabilities is a   *)
(* sequence of records, get_alerts_vuln does not raise, whatever the shape *)
(* of the records.                                                         *)
C10_ScoreIsTotal ==
    (pc # "evaluate" /\ IsListSection(scan_report, vuln_str_key_1)
        /\ HasKey(scan_report, detect_str_key)) =>
        raised.step # "get_alerts_vuln" /\ f_vuln_score >= 0

----------------------------------------------------------------------------
(* What the claims say of the vulnerability records *)

(* the field of obj under key; null when obj is not a mapping or has no    *)
(* such field                                                              *)
Field(obj, key) ==
    IF obj.t = "dict" /\ HasKey(obj, key) THEN Value(obj, key) ELSE None

(* the severity of a record in the priority order cvss_v3_score, then      *)
(* cvss_v2_score, then the flat field of Details; null when there is none  *)
ResolvedSeverity(record) ==
    LET details == Field(Field(record, "Vulnerability"), details_str_key)
        v3 == Field(Field(details, "cvss_v3_score"), "severity")
        v2 == Field(Field(details, "cvss_v2_score"), "severity")
        flat == Field(details, "severity")
    IN  IF ~IsNone(v3) THEN v3
        ELSE IF ~IsNone(v2) THEN v2
        ELSE flat

(* the weight table: 0 for a severity that is not one of the four names *)
WeightOf(severity) ==
    IF severity.t # "str" THEN 0
    ELSE CASE Folded(severity.v) = sev_low -> 20
           [] Folded(severity.v) = sev_medium -> 100
           [] Folded(severity.v) = sev_high -> 500
           [] Folded(severity.v) = sev_critical -> 2000
           [] OTHER -> 0

RECURSIVE SumOfWeights(_)
SumOfWeights(records) ==
    IF records = <<>> THEN 0
    ELSE WeightOf(ResolvedSeverity(Head(records))) + SumOfWeights(Tail(records))

(* C11: once the evaluation has run on a report with both sections and a   *)
(* sequence of vulnerability records, the vulnerability score is the sum,  *)
(* over the records, of the weight of each record's resolved severity:     *)
(* low 20, medium 100, high 500, critical 2000, compared without regard to *)
(* case, and 0 for any other, empty or missing severity.                   *)
C11_ScoreIsSumOfWeights ==
    (pc # "evaluate" /\ IsListSection(scan_report, vuln_str_key_1)
        /\ HasKey(scan_report, detect_str_key)) =>
        f_vuln_score = SumOfWeights(Value(scan_report, vuln_str_key_1).v)

(* C11, where the scan returns: the score get_alerts_vuln returns is that  *)
(* sum of weights.                                                         *)
C11_ReturnedScoreIsSum ==
    (pc # "evaluate" /\ f_vuln_score # -1
        /\ IsListSection(scan_report, vuln_str_key_1)) =>
        f_vuln_score = SumOfWeights(Value(scan_report, vuln_str_key_1).v)

(* the Details of the records of the report that are mappings *)
DetailsOfRecords(report) ==
    IF IsListSection(report, vuln_str_key_1)
    THEN {d \in {Field(Field(Value(report, vuln_str_key_1).v[i], "Vulnerability"),
                       details_str_key) :
                    i \in 1..Len(Value(report, vuln_str_key_1).v)} : d.t = "dict"}
    ELSE {}

(* the severity the claims resolve from a Details: v3, else v2, else the   *)
(* flat field, else empty                                                  *)
ResolvedFrom(details) ==
    LET v3 == Field(Field(details, "cvss_v3_score"), "severity")
        v2 == Field(Field(details, "cvss_v2_score"), "severity")
        flat == Field(details, "severity")
    IN  IF ~IsNone(v3) THEN v3
        ELSE IF ~IsNone(v2) THEN v2
        ELSE IF ~IsNone(flat) THEN flat
        ELSE Str(<<>>)

SameValue(a, b) == a.t = b.t /\ a.v = b.v

(* C12: for every record of an evaluated report, the severity read from    *)
(* its Details is cvss_v3_score.severity when there is one, otherwise      *)
(* cvss_v2_score.severity when there is one, otherwise the flat severity   *)
(* field, otherwise empty.                                                 *)
C12_SeverityPriority ==
    pc # "evaluate" =>
        \A details \in DetailsOfRecords(scan_report) :
            \E severity \in {DetailsSeverity(details)} :
                /\ severity.exc = ""
                /\ SameValue(severity.val, ResolvedFrom(details))

(* C12, where the severity is read without an exception: it is the one of  *)
(* that priority order.                                                    *)
C12_ReadSeverityPriority ==
    pc # "evaluate" =>
        \A details \in DetailsOfRecords(scan_report) :
            \E severity \in {DetailsSeverity(details)} :
                severity.exc = "" => SameValue(severity.val, ResolvedFrom(details))

----------------------------------------------------------------------------
(* What the claims say of the detection records *)

(* the report without its detections of the types names *)
Without(report, names) ==
    Dict([i \in 1..Len(report.v) |->
            IF report.v[i][1] = detect_str_key
            THEN <<detect_str_key,
                   List(SelectSeq(report.v[i][2].v,
                                  LAMBDA record : ~IsDetectionOf(record, names)))>>
            ELSE report.v[i]])

(* the report's Detections is the single detection {Type: "Secret"} and    *)
(* its Vulnerabilities is null or a sequence                               *)
SingleSecret(report) ==
    /\ IsListSection(report, detect_str_key)
    /\ Value(report, detect_str_key).v = <<Detection(Str(<<"S","e","c","r","e","t">>))>>
    /\ HasKey(report, vuln_str_key_1)
    /\ Value(report, vuln_str_key_1).t \in {"list", "null"}

(* C13: for an evaluated report whose Detections is a sequence,            *)
(* get_alerts_malware returns Malware exactly when a detection's Type      *)
(* case-folds to 'malware', get_alerts_secrets returns Secrets exactly     *)
(* when one case-folds to 'secret', neither result changes when the        *)
(* detections of the other type are removed, and a report whose only       *)
(* detection is {Type: "Secret"} exits Secrets.                            *)
C13_MalwareAndSecretsSignals ==
    (pc # "evaluate" /\ IsListSection(scan_report, detect_str_key)) =>
        /\ \E found \in {get_alerts_malware(scan_report)} :
              /\ (found.exc = "" /\ found.val = Malware)
                    <=> Present(scan_report, {type_malware})
              /\ found = get_alerts_malware(Without(scan_report, {type_secret}))
        /\ \E found \in {get_alerts_secrets(scan_report)} :
              /\ (found.exc = "" /\ found.val = Secrets)
                    <=> Present(scan_report, {type_secret})
              /\ found = get_alerts_secrets(Without(scan_report, {type_malware}))
        /\ (pc = "exit" /\ SingleSecret(scan_report)) => exit_code = Secrets

(* C13, where the scans return and get_alerts_vuln has returned: the same  *)
(* statement.                                                              *)
C13_ReturnedSignals ==
    (pc # "evaluate" /\ IsListSection(scan_report, detect_str_key)) =>
        /\ \E found \in {get_alerts_malware(scan_report)} :
              /\ found.exc = "" =>
                    (found.val = Malware <=> Present(scan_report, {type_malware}))
              /\ found = get_alerts_malware(Without(scan_report, {type_secret}))
        /\ \E found \in {get_alerts_secrets(scan_report)} :
              /\ found.exc = "" =>
                    (found.val = Secrets <=> Present(scan_report, {type_secret}))
              /\ found = get_alerts_secrets(Without(scan_report, {type_malware}))
        /\ (pc = "exit" /\ SingleSecret(scan_report) /\ f_vuln_score # -1) =>
              exit_code = Secrets

----------------------------------------------------------------------------
(* the report lacks one of the two top-level keys *)
MissingKey(report) ==
    /\ report.t = "dict"
    /\ ~HasKey(report, vuln_str_key_1) \/ ~HasKey(report, detect_str_key)

(* C14: once the evaluation has run on a report that lacks the top-level   *)
(* key Vulnerabilities or Detections, the run is over with exit code       *)
(* ScriptFailure, whatever the section that is present holds: the scan     *)
(* that reads the missing key has raised and no decision was taken.        *)
C14_MissingKeyIsFatal ==
    (pc # "evaluate" /\ MissingKey(scan_report)) =>
        /\ pc = "exit"
        /\ exit_code = ScriptFailure
        /\ raised.step \in {"get_alerts_vuln", "get_alerts_secrets"}
        /\ ~HasKey(scan_report, vuln_str_key_1) =>
              raised.step = "get_alerts_vuln" /\ raised.exc = "KeyError"
        /\ f_vuln_score # -1 =>
              raised.step = "get_alerts_secrets" /\ raised.exc = "KeyError"
        /\ f_secrets = -1 /\ f_malware = -1

(* a report without Detections whose vulnerabilities score 500, at         *)
(* threshold 0, ends the run with ScriptFailure                            *)
C14_Witness ==
    /\ pc = "exit"
    /\ ~HasKey(scan_report, detect_str_key)
    /\ f_vuln_score = high_score
    /\ score = <<"0">>
    /\ exit_code = ScriptFailure

----------------------------------------------------------------------------
(* both sections of the report are empty sequences *)
EmptySections(report) ==
    /\ IsListSection(report, vuln_str_key_1)
    /\ IsListSection(report, detect_str_key)
    /\ Value(report, vuln_str_key_1).v = <<>>
    /\ Value(report, detect_str_key).v = <<>>

(* C16: once the evaluation has run on a report whose Vulnerabilities and  *)
(* Detections are both empty, the vulnerability score is 0, no malware, no *)
(* secret and no misconfiguration is found, no alert is logged, nothing    *)
(* was raised, and the run exits Success when the threshold is an integer  *)
(* greater than 0.                                                         *)
C16_EmptyReportIsClean ==
    (pc # "evaluate" /\ EmptySections(scan_report)) =>
        /\ f_vuln_score = 0
        /\ f_malware = 0
        /\ f_secrets = 0
        /\ mcfg_code = 0
        /\ alerts = {}
        /\ raised.step \notin {"get_alerts_vuln", "get_alerts_secrets",
                               "get_alerts_malware", "get_alerts_misconfig"}
        /\ \E limit \in {int(score)} :
              (pc = "exit" /\ limit.exc = "" /\ limit.val > 0) =>
                  exit_code = Success /\ raised = NotRaised

(* the empty report ended a run with Success at threshold 500 *)
C16_Witness ==
    /\ pc = "exit"
    /\ EmptySections(scan_report)
    /\ score = <<"5","0","0">>
    /\ f_vuln_score = 0
    /\ exit_code = Success

----------------------------------------------------------------------------
(* the report with its two sections, both sequences, reordered by the      *)
(* permutations pv and pd of their indices                                 *)
Reordered(report, pv, pd) ==
    Dict([i \in 1..Len(report.v) |->
            IF report.v[i][1] = vuln_str_key_1
            THEN <<vuln_str_key_1,
                   List([k \in DOMAIN pv |-> report.v[i][2].v[pv[k]]])>>
            ELSE IF report.v[i][1] = detect_str_key
            THEN <<detect_str_key,
                   List([k \in DOMAIN pd |-> report.v[i][2].v[pd[k]]])>>
            ELSE report.v[i]])

(* what a scan gives: whether it raises, and what it returns *)
Outcome(result) == [raises |-> result.exc # "", val |-> result.val]

(* the four scans and the exit code agree on the reports a and b *)
SameEvaluation(a, b, threshold) ==
    /\ Outcome(get_alerts_vuln(a)) = Outcome(get_alerts_vuln(b))
    /\ Outcome(get_alerts_malware(a)) = Outcome(get_alerts_malware(b))
    /\ Outcome(get_alerts_secrets(a)) = Outcome(get_alerts_secrets(b))
    /\ Outcome(get_alerts_misconfig(a)) = Outcome(get_alerts_misconfig(b))
    /\ get_alerts_misconfig(a).alert = get_alerts_misconfig(b).alert
    /\ ExitCode(a, threshold) = ExitCode(b, threshold)

(* every reordering of the records of the report evaluates as the report *)
OrderFree(report, threshold) ==
    \A pv \in Permutations(1..Len(Value(report, vuln_str_key_1).v)) :
        \A pd \in Permutations(1..Len(Value(report, detect_str_key).v)) :
            SameEvaluation(report, Reordered(report, pv, pd), threshold)

(* every detection record of the report is one the scans read or skip *)
Readable(report) ==
    \A i \in 1..Len(Value(report, detect_str_key).v) :
        DetectionType(Value(report, detect_str_key).v[i]).exc \in {"", "KeyError"}

(* C19: for an evaluated report whose two sections are sequences, every    *)
(* permutation of its Detections and of its Vulnerabilities gives the same *)
(* score, the same malware, secrets and misconfiguration results, the same *)
(* raise or no-raise behaviour of each scan, and the same exit code.       *)
C19_OrderIndependent ==
    (pc # "evaluate" /\ IsListSection(scan_report, vuln_str_key_1)
        /\ IsListSection(scan_report, detect_str_key)) =>
        OrderFree(scan_report, score)

(* C19, for the reports all of whose detection records the scans read or   *)
(* skip: the same statement.                                               *)
C19_ReadableOrderIndependent ==
    (pc # "evaluate" /\ IsListSection(scan_report, vuln_str_key_1)
        /\ IsListSection(scan_report, detect_str_key)
        /\ Readable(scan_report)) =>
        OrderFree(scan_report, score)

----------------------------------------------------------------------------
(* the GETs and the waits of the polling so far *)
PollingBounded ==
    /\ Occurrences("GET") <= retry_count
    /\ Occurrences("sleep") = Occurrences("GET")
    /\ Len(statuses) = Occurrences("GET")
    /\ count = Occurrences("GET")
    /\ \A i \in 1..Len(calls) :
          /\ calls[i] = "GET" => i > 1 /\ calls[i - 1] = "sleep"
          /\ calls[i] = "sleep" => i < Len(calls) /\ calls[i + 1] = "GET"
    /\ Occurrences("sleep") * sleep_seconds <= retry_count * sleep_seconds

(* C15: in every run at most retry_count GETs are issued, each after one   *)
(* wait of sleep_seconds and after the response to the previous GET, so    *)
(* the waits sum to at most retry_count times sleep_seconds; and when      *)
(* every call returns, the run ends with exit code 0, 1, 2, 3 or 10.       *)
C15_PollingBoundedAndTerminates ==
    /\ []PollingBounded
    /\ <>(/\ pc = "exit"
          /\ exit_code \in {Success, Vulnerability, Malware, Secrets, ScriptFailure})

(* a run used its whole retry budget and ended *)
C15_Witness ==
    /\ pc = "exit"
    /\ retry_count = 2
    /\ Occurrences("GET") = 2
    /\ Occurrences("sleep") = 2
    /\ raised.step = "get_scanreport"
    /\ raised.exc = "APIError"

----------------------------------------------------------------------------
(* C18: a run that exits Success raised nothing; tag, login, push and the  *)
(* token POST happened in that order; every entry of the push stream was   *)
(* read and none had an 'error' field; the token endpoint answered 200 or  *)
(* 201; the last GET answered 200 and its body is the report evaluated;    *)
(* the report has no detection of type secret and none of type malware;    *)
(* and its vulnerability score is strictly below the integer threshold.    *)
C18_SuccessOnlyAfterCleanRun ==
    (pc = "exit" /\ exit_code = Success) =>
        /\ raised = NotRaised
        /\ Len(calls) >= 6
        /\ SubSeq(calls, 1, 4) = <<"tag", "login", "push", "POST">>
        /\ ~stream_error
        /\ image_push = <<>>
        /\ auth_status \in {200, 201}
        /\ token = "access_token"
        /\ statuses # <<>>
        /\ statuses[Len(statuses)] = 200
        /\ scan_report.t # "unset"
        /\ resp.body = scan_report
        /\ ~Present(scan_report, {type_secret})
        /\ ~Present(scan_report, {type_malware})
        /\ f_secrets = 0
        /\ f_malware = 0
        /\ \E vuln \in {get_alerts_vuln(scan_report)} :
              vuln.exc = "" /\ vuln.val = f_vuln_score
        /\ \E limit \in {int(score)} :
              limit.exc = "" /\ f_vuln_score < limit.val

(* a run exits Success after a 201 from the token endpoint and one GET *)
C18_Witness ==
    /\ pc = "exit"
    /\ exit_code = Success
    /\ auth_status = 201
    /\ Len(statuses) = 1
    /\ f_vuln_score > 0

----------------------------------------------------------------------------
(* a report export path is configured: if json_report, line 374 *)
ExportConfigured == json_report \notin {"None", ""}

(* the run has gone past the export: it is evaluating or deciding, or it   *)
(* ended with an exit code of the decision or with a failure of the        *)
(* evaluation or of the decision                                           *)
PastExport ==
    \/ pc \in {"evaluate", "decide"}
    \/ pc = "exit" /\ raised = NotRaised
    \/ pc = "exit" /\ FailedAt >= 7

(* C20: the file is written at most once in a run; with a path configured, *)
(* once polling has returned a report and the evaluation is reached, the   *)
(* file holds the report, for every outcome of the evaluation and of the   *)
(* decision, and nothing of the evaluation happens before the write; when  *)
(* no path is configured, or the run fails in polling or earlier, nothing  *)
(* is written.                                                             *)
C20_ExportOnceBeforeEvaluation ==
    /\ Occurrences("write") <= 1
    /\ (ExportConfigured /\ PastExport) =>
          /\ Occurrences("write") = 1
          /\ calls[Len(calls)] = "write"
          /\ calls[Len(calls) - 1] = "GET"
          /\ written # NoFile
          /\ written = dumps(scan_report, 4, 0)
    /\ pc = "export" =>
          /\ ExportConfigured
          /\ calls[Len(calls)] = "GET"
          /\ f_vuln_score = -1 /\ f_secrets = -1 /\ f_malware = -1
          /\ mcfg_code = -1 /\ alerts = {} /\ exit_code = -1
    /\ ~ExportConfigured => Occurrences("write") = 0 /\ written = NoFile
    /\ FailedAt \in 1..5 => Occurrences("write") = 0 /\ written = NoFile
    /\ scan_report.t = "unset" => Occurrences("write") = 0 /\ written = NoFile

(* the report was written and the evaluation then failed: exit 10 *)
C20_Witness ==
    /\ pc = "exit"
    /\ exit_code = ScriptFailure
    /\ FailedAt \in 7..10
    /\ written # NoFile
    /\ Occurrences("write") = 1

----------------------------------------------------------------------------
(* C17: whenever the export has written the file, loading the text written *)
(* gives a document identical to the report, which is the body of the 200  *)
(* response that ended polling; the report is the same at every later step *)
(* of the run.                                                             *)
C17_ExportRoundTrip ==
    /\ written # NoFile =>
          /\ scan_report.t = "dict"
          /\ resp.status_code = 200
          /\ resp.body = scan_report
          /\ \E document \in {loads(written)} :
                document.exc = "" /\ document.val = scan_report
    /\ scan_report.t # "unset" => resp.body = scan_report

(* the report written has a string with a quote and a backslash in it, and *)
(* the run went on to its end                                              *)
C17_Witness ==
    /\ written # NoFile
    /\ pc = "exit"
    /\ \E i \in 1..Len(written) : written[i] = "\\"
    /\ IsListSection(scan_report, vuln_str_key_1)
    /\ Len(Value(scan_report, vuln_str_key_1).v) = 1

====
